---- MODULE Spec2Model ----
EXTENDS Integers, Sequences, FiniteSets, TLC

(***************************************************************************)
(* Model of convert_celeba.py: metadata join, validation, split into       *)
(* buckets, output-directory preparation and the pooled copy fan-out.     *)
(***************************************************************************)

PART_COL == "partition"

FILE_EXT == ".png"

INDEX_EXT == ".jpg"

PARTITIONS == [train |-> 0, val |-> 1, test |-> 2]

\* attribute columns named in the header of the attribute file
AttrCols == {"Male"}

\* a file name or an index key, split as os.path.splitext splits it
Key(b, e) == [base |-> b, ext |-> e]

\* cell of an attribute column after the join: a number, or NaN for a
\* partition row with no attribute row (left join)
Val(n) == [nan |-> FALSE, n |-> n]

NaNVal == [nan |-> TRUE, n |-> 0]

\* pandas comparisons: NaN > 0 and NaN <= 0 are both False
GtZero(x) == ~x.nan /\ x.n > 0

LeZero(x) == ~x.nan /\ x.n <= 0

\* ---------------------------------------------------------------------
\* Metadata loader
\* partition file: sequence of [key, part]; attribute file: sequence of
\* [key, vals] with vals a function AttrCols -> Int
\* ---------------------------------------------------------------------

AttrOf(af, k, c) ==
    IF \E j \in 1..Len(af) : af[j].key = k
    THEN Val(af[CHOOSE j \in 1..Len(af) : af[j].key = k].vals[c])
    ELSE NaNVal

\* attribute columns of load_celeba_attrs: with no data line, read_csv infers
\* no implicit index column and index_col=0 consumes the only header field,
\* so the frame has no attribute column
AttrColsOf(af) == IF af = << >> THEN {} ELSE AttrCols

\* df_partition.join(df_attrs): left join, rows and order of the partition table
LoadCelebaSpecs(pf, af) ==
    [i \in 1..Len(pf) |->
        [key   |-> pf[i].key,
         part  |-> pf[i].part,
         attrs |-> [c \in AttrColsOf(af) |-> AttrOf(af, pf[i].key, c)]]]

Index(tbl) == {tbl[i].key : i \in DOMAIN tbl}

\* specs.columns of the joined table
SpecsColumns(af) == {PART_COL} \cup AttrColsOf(af)

\* ---------------------------------------------------------------------
\* Validator
\* ---------------------------------------------------------------------

ValidateAttr(cols, attr) == attr \in (cols \ {PART_COL})

\* variant: the extension of a listed file is not checked
RECURSIVE CheckImagesNoExt(_, _, _)
CheckImagesNoExt(images, idx, i) ==
    IF i > Len(images) THEN "ok"
    ELSE IF Key(images[i].base, INDEX_EXT) \notin idx THEN "missing"
    ELSE CheckImagesNoExt(images, idx, i + 1)

RECURSIVE CheckImages(_, _, _)
CheckImages(images, idx, i) ==
    IF i > Len(images) THEN "ok"
    ELSE IF images[i].ext # FILE_EXT THEN "ext"
    ELSE IF Key(images[i].base, INDEX_EXT) \notin idx THEN "missing"
    ELSE CheckImages(images, idx, i + 1)

ValidateImages(images, tbl) ==
    IF Len(images) # Len(tbl) THEN "count"
    ELSE CheckImages(images, Index(tbl), 1)

\* ---------------------------------------------------------------------
\* Splitter
\* ---------------------------------------------------------------------

KeysOf(s) == [i \in 1..Len(s) |-> s[i].key]

\* variant: class A taken as attribute >= 0
PrepareSingleSplitGe(tbl, attr, p) ==
    << KeysOf(SelectSeq(tbl, LAMBDA r : r.part = PARTITIONS[p] /\ ~r.attrs[attr].nan /\ r.attrs[attr].n >= 0)),
       KeysOf(SelectSeq(tbl, LAMBDA r : r.part = PARTITIONS[p] /\ LeZero(r.attrs[attr]))) >>

PrepareSingleSplit(tbl, attr, p) ==
    << KeysOf(SelectSeq(tbl, LAMBDA r : r.part = PARTITIONS[p] /\ GtZero(r.attrs[attr]))),
       KeysOf(SelectSeq(tbl, LAMBDA r : r.part = PARTITIONS[p] /\ LeZero(r.attrs[attr]))) >>

Bucket(n, fs) == [name |-> n, files |-> fs]

\* variant: val items placed before test items when merging
PrepareImageSplitValFirst(tbl, attr, sep) ==
    LET tr == PrepareSingleSplit(tbl, attr, "train")
        va == PrepareSingleSplit(tbl, attr, "val")
        te == PrepareSingleSplit(tbl, attr, "test")
    IN IF sep
       THEN << Bucket("trainA", tr[1]), Bucket("trainB", tr[2]),
               Bucket("valA", va[1]),   Bucket("valB", va[2]),
               Bucket("testA", te[1]),  Bucket("testB", te[2]) >>
       ELSE << Bucket("trainA", tr[1]), Bucket("trainB", tr[2]),
               Bucket("testA", va[1] \o te[1]),
               Bucket("testB", va[2] \o te[2]) >>

\* the returned dict, as the sequence of its items in insertion order
PrepareImageSplit(tbl, attr, sep) ==
    LET tr == PrepareSingleSplit(tbl, attr, "train")
        va == PrepareSingleSplit(tbl, attr, "val")
        te == PrepareSingleSplit(tbl, attr, "test")
    IN IF sep
       THEN << Bucket("trainA", tr[1]), Bucket("trainB", tr[2]),
               Bucket("valA", va[1]),   Bucket("valB", va[2]),
               Bucket("testA", te[1]),  Bucket("testB", te[2]) >>
       ELSE << Bucket("trainA", tr[1]), Bucket("trainB", tr[2]),
               Bucket("testA", te[1] \o va[1]),
               Bucket("testB", te[2] \o va[2]) >>

RECURSIVE SumLens(_)
SumLens(split) ==
    IF split = << >> THEN 0 ELSE Len(Head(split).files) + SumLens(Tail(split))

ValidateImageSplit(tbl, split) == Len(tbl) = SumLens(split)

BucketNames(split) == {split[i].name : i \in DOMAIN split}

\* CopyWorker: base of the index key + FILE_EXT
CopyName(k) == Key(k.base, FILE_EXT)

\* ---------------------------------------------------------------------
\* Run of main(): state machine
\* ---------------------------------------------------------------------

VARIABLES
    pc,          \* position in main()
    err,         \* kind of error that aborted the run
    rootExists,  \* OUTDIR exists on disk
    rootPre,     \* OUTDIR existed when the run started
    envCreated,  \* another process created OUTDIR during the run
    toolRoot,    \* the run created OUTDIR itself
    subdirs,     \* bucket subdirectories the run created
    copied,      \* files copied by the run: <<bucket, file>>
    failed,      \* index keys whose copy raised
    partFile, attrFile, imgDir, attr, sepVal, workers,   \* inputs
    table, images, split,
    columns,     \* specs.columns of the joined table
    partial,     \* destination files left truncated: <<bucket, file>>
    bidx,        \* split_images: index of the current bucket
    pending,     \* tasks handed to the pool, not yet taken by a worker
    inflight,    \* tasks being copied by a worker
    results,     \* finished tasks, in completion order, not yet yielded
    progress     \* pbar.n of the current bucket

vars == << pc, err, rootExists, rootPre, envCreated, toolRoot, subdirs,
           copied, failed, partFile, attrFile, imgDir, attr, sepVal, workers,
           table, images, split, bidx, pending, inflight, results, progress,
           columns, partial >>

inputs == << partFile, attrFile, imgDir, attr, sepVal, workers, rootPre >>

\* bounds of the run
RunBases == {"a", "b"}

MaxRunRows == 2

MaxWorkers == 2

RunParts == {0, 1, 3}

RunVals == {-1, 1}

RunKeys == {Key(b, INDEX_EXT) : b \in RunBases}

\* all image file names the source directory may hold, in sorted order
FileOrder == << Key("a", ".gif"), Key("a", ".png"), Key("b", ".gif"),
                Key("b", ".png"), Key("c", ".gif"), Key("c", ".png") >>

RunFiles == {Key(b, e) : b \in RunBases, e \in {".gif", ".png"}}

\* sorted(os.listdir(root))
CollectCelebaImages(dir) == SelectSeq(FileOrder, LAMBDA f : f \in dir)

DistinctKeys(s) == \A i, j \in DOMAIN s : i # j => s[i].key # s[j].key

SeqsUpTo(S, n) == UNION {[1..k -> S] : k \in 0..n}

\* read_csv of an empty partition file raises, so it has at least one row
RunPartFiles ==
    {s \in SeqsUpTo([key : RunKeys, part : RunParts], MaxRunRows) :
        DistinctKeys(s) /\ s # << >>}

RunAttrFiles ==
    {s \in SeqsUpTo([key : RunKeys, vals : [AttrCols -> RunVals]], MaxRunRows) :
        DistinctKeys(s)}

Init ==
    /\ partFile \in RunPartFiles
    /\ attrFile \in RunAttrFiles
    /\ imgDir \in SUBSET RunFiles
    /\ attr \in {"Male", PART_COL}
    /\ sepVal \in BOOLEAN
    /\ workers \in 1..MaxWorkers
    /\ rootPre \in BOOLEAN
    /\ rootExists = rootPre
    /\ pc = "check"
    /\ err = "none"
    /\ envCreated = FALSE
    /\ toolRoot = FALSE
    /\ subdirs = {}
    /\ copied = {}
    /\ failed = {}
    /\ table = << >>
    /\ images = << >>
    /\ split = << >>
    /\ bidx = 0
    /\ pending = << >>
    /\ inflight = {}
    /\ results = << >>
    /\ progress = 0
    /\ columns = {}
    /\ partial = {}

CopyVars == << bidx, pending, inflight, results, progress, copied, failed, partial >>

Fail(kind) == pc' = "error" /\ err' = kind

\* variant: no existence check before the run
CheckOutdirNoGuard ==
    /\ pc = "check"
    /\ pc' = "load"
    /\ UNCHANGED << err, rootExists, envCreated, toolRoot, subdirs, table, columns, images,
                    split >>
    /\ UNCHANGED CopyVars /\ UNCHANGED inputs

\* main: if os.path.exists(outdir): raise RuntimeError
CheckOutdir ==
    /\ pc = "check"
    /\ IF rootExists THEN Fail("exists") ELSE pc' = "load" /\ UNCHANGED err
    /\ UNCHANGED << rootExists, envCreated, toolRoot, subdirs, table, columns, images,
                    split >>
    /\ UNCHANGED CopyVars /\ UNCHANGED inputs

\* main: specs = load_celeba_specs(...)
Load ==
    /\ pc = "load"
    /\ table' = LoadCelebaSpecs(partFile, attrFile)
    /\ columns' = SpecsColumns(attrFile)
    /\ pc' = "vattr"
    /\ UNCHANGED << err, rootExists, envCreated, toolRoot, subdirs, images, split >>
    /\ UNCHANGED CopyVars /\ UNCHANGED inputs

\* main: validate_attr(specs, attr)
VAttr ==
    /\ pc = "vattr"
    /\ IF ValidateAttr(columns, attr) THEN pc' = "vimages" /\ UNCHANGED err
       ELSE Fail("attr")
    /\ UNCHANGED << rootExists, envCreated, toolRoot, subdirs, table, columns, images, split >>
    /\ UNCHANGED CopyVars /\ UNCHANGED inputs

\* main: images = collect_celeba_images(...); validate_images(images, specs)
VImages ==
    /\ pc = "vimages"
    /\ images' = CollectCelebaImages(imgDir)
    /\ LET r == ValidateImages(images', table)
       IN IF r = "ok" THEN pc' = "split" /\ UNCHANGED err ELSE Fail(r)
    /\ UNCHANGED << rootExists, envCreated, toolRoot, subdirs, table, columns, split >>
    /\ UNCHANGED CopyVars /\ UNCHANGED inputs

\* variant: output tree created before the split count is validated
SplitStepLateCheck ==
    /\ pc = "split"
    /\ split' = PrepareImageSplit(table, attr, sepVal)
    /\ toolRoot' = ~rootExists
    /\ rootExists' = TRUE
    /\ subdirs' = BucketNames(split')
    /\ IF ValidateImageSplit(table, split') THEN pc' = "prepare" /\ UNCHANGED err
       ELSE Fail("split")
    /\ UNCHANGED << envCreated, table, columns, images >>
    /\ UNCHANGED CopyVars /\ UNCHANGED inputs

\* main: split_dict = prepare_image_split(...); validate_image_split(...)
SplitStep ==
    /\ pc = "split"
    /\ split' = PrepareImageSplit(table, attr, sepVal)
    /\ IF ValidateImageSplit(table, split') THEN pc' = "prepare" /\ UNCHANGED err
       ELSE Fail("split")
    /\ UNCHANGED << rootExists, envCreated, toolRoot, subdirs, table, columns, images >>
    /\ UNCHANGED CopyVars /\ UNCHANGED inputs

\* main: prepare_outdir(outdir, split_dict): makedirs(exist_ok=True), then
\* one mkdir per bucket; then split_images starts on the first bucket
PrepareOutdir ==
    /\ pc = "prepare"
    /\ toolRoot' = ~rootExists
    /\ rootExists' = TRUE
    /\ subdirs' = BucketNames(split)
    /\ pc' = "copy"
    /\ bidx' = 1
    /\ pending' = split[1].files
    /\ progress' = 0
    /\ UNCHANGED << err, envCreated, table, columns, images, split, inflight, results,
                    copied, failed, partial >>
    /\ UNCHANGED inputs

OtherThanCopy == << pc, err, rootExists, envCreated, toolRoot, subdirs, table, columns,
                    images, split >>

\* a pool worker takes the next task of imap_unordered
WorkerTake ==
    /\ pc = "copy"
    /\ pending # << >>
    /\ Cardinality(inflight) < workers
    /\ inflight' = inflight \cup {Head(pending)}
    /\ pending' = Tail(pending)
    /\ UNCHANGED << bidx, results, progress, copied, failed, partial >>
    /\ UNCHANGED OtherThanCopy /\ UNCHANGED inputs

\* a pool worker runs CopyWorker(file): shutil.copy succeeds or raises
WorkerFinish ==
    /\ pc = "copy"
    /\ \E f \in inflight, ok \in BOOLEAN :
        /\ inflight' = inflight \ {f}
        /\ results' = Append(results, [file |-> f, ok |-> ok])
        /\ IF ok THEN copied' = copied \cup {<< split[bidx].name, CopyName(f) >>}
                      /\ UNCHANGED << failed, partial >>
           ELSE /\ failed' = failed \cup {f}
                \* shutil.copy may raise after writing part of the file
                /\ partial' \in {partial, partial \cup {<< split[bidx].name, CopyName(f) >>}}
                /\ UNCHANGED copied
    /\ UNCHANGED << bidx, pending, progress >>
    /\ UNCHANGED OtherThanCopy /\ UNCHANGED inputs

\* variant: the counter update may be lost, and a failed copy is skipped
ConsumeLossy ==
    /\ pc = "copy"
    /\ results # << >>
    /\ progress' \in {progress, progress + 1}
    /\ results' = Tail(results)
    /\ UNCHANGED << pc, err, pending, inflight >>
    /\ UNCHANGED << bidx, copied, failed, partial >>
    /\ UNCHANGED << rootExists, envCreated, toolRoot, subdirs, table, columns, images, split >>
    /\ UNCHANGED inputs

\* main process: next(imap_unordered) yields a result -> pbar.update();
\* an exception result is re-raised, the pool is terminated, the run aborts
Consume ==
    /\ pc = "copy"
    /\ results # << >>
    /\ IF Head(results).ok
       THEN /\ progress' = progress + 1
            /\ results' = Tail(results)
            /\ UNCHANGED << pc, err, pending, inflight, partial, copied >>
       ELSE /\ Fail("io")
            /\ pending' = << >>
            /\ inflight' = {}
            \* leaving the with-block calls Pool.terminate(); until then a
            \* worker inside shutil.copy may finish its file, and the kill
            \* leaves the others truncated or untouched
            /\ \E whole \in SUBSET inflight, cut \in SUBSET inflight :
                  /\ whole \cap cut = {}
                  /\ copied' = copied \cup {<< split[bidx].name, CopyName(f) >> : f \in whole}
                  /\ partial' = partial \cup {<< split[bidx].name, CopyName(f) >> : f \in cut}
            /\ UNCHANGED << progress, results >>
    /\ UNCHANGED << bidx, failed >>
    /\ UNCHANGED << rootExists, envCreated, toolRoot, subdirs, table, columns, images, split >>
    /\ UNCHANGED inputs

\* the imap_unordered loop of a bucket ends; pbar.close(); next bucket
NextBucket ==
    /\ pc = "copy"
    /\ progress = Len(split[bidx].files)
    /\ IF bidx = Len(split)
       THEN pc' = "done" /\ UNCHANGED << bidx, pending, progress >>
       ELSE /\ bidx' = bidx + 1
            /\ pending' = split[bidx + 1].files
            /\ progress' = 0
            /\ UNCHANGED pc
    /\ UNCHANGED << err, inflight, results, copied, failed, partial >>
    /\ UNCHANGED << rootExists, envCreated, toolRoot, subdirs, table, columns, images, split >>
    /\ UNCHANGED inputs

\* another process creates OUTDIR while the run is going on
EnvCreateRoot ==
    /\ ~rootExists
    /\ pc \notin {"done", "error"}
    /\ rootExists' = TRUE
    /\ envCreated' = TRUE
    /\ UNCHANGED << pc, err, toolRoot, subdirs, table, columns, images, split >>
    /\ UNCHANGED CopyVars /\ UNCHANGED inputs

Next ==
    \/ CheckOutdir
    \/ Load
    \/ VAttr
    \/ VImages
    \/ SplitStep
    \/ PrepareOutdir
    \/ WorkerTake
    \/ WorkerFinish
    \/ Consume
    \/ NextBucket
    \/ EnvCreateRoot

Spec == Init /\ [][Next]_vars

\* ---------------------------------------------------------------------
\* Properties of a run
\* ---------------------------------------------------------------------

KeySet(f) == {f[i].key : i \in DOMAIN f}

\* main has passed load_celeba_specs
Loaded ==
    \/ pc \in {"vattr", "vimages", "split", "prepare", "copy", "done"}
    \/ (pc = "error" /\ err # "exists")

CurTotal == Len(split[bidx].files)

OkPending == Len(SelectSeq(results, LAMBDA r : r.ok))

BucketCopied == {c \in copied : c[1] = split[bidx].name}

BucketPos(n) == CHOOSE i \in DOMAIN split : split[i].name = n

Range(s) == {s[i] : i \in DOMAIN s}

BucketOf(k) == CHOOSE i \in DOMAIN split : k \in Range(split[i].files)

\* C1: if OUTDIR exists when the run starts, the run fails with the
\* already-exists error and creates no directory and copies no file.
C1_ExistingOutdirRefused ==
    rootPre =>
        /\ ~toolRoot /\ subdirs = {} /\ copied = {} /\ partial = {}
        /\ pc \in {"check", "error"}
        /\ (pc = "error" => err = "exists")

C1_Witness == rootPre /\ pc = "error"

\* C2: a run that ends in an unknown-attribute, count, extension,
\* missing-entry or split-count error has created no directory under
\* OUTDIR and copied no file.
C2_ValidationBeforeOutput ==
    (pc = "error" /\ err \in {"attr", "count", "ext", "missing", "split"})
        => (~toolRoot /\ subdirs = {} /\ copied = {} /\ partial = {})

C2_Witness == pc = "error" /\ err = "split"

\* C6 (as stated): the loader fails if the key sets of the partition and
\* attribute tables differ; otherwise every joined row has all attributes.
C6_LoaderRejectsMisalignedKeys ==
    Loaded =>
        /\ KeySet(partFile) = KeySet(attrFile)
        /\ \A i \in DOMAIN table : \A c \in AttrCols : ~table[i].attrs[c].nan

\* C8: the progress counter of a bucket moves by one per yielded copy, never
\* loses an update, never exceeds the bucket's total, and equals the total
\* when the bucket ends with every copy successful.
C8_ProgressCounter ==
    /\ [](pc = "copy" =>
            /\ progress <= CurTotal
            /\ progress + OkPending = Cardinality(BucketCopied))
    /\ [][ /\ (pc = "copy" /\ pc' = "copy" /\ bidx' = bidx)
                => progress' \in {progress, progress + 1}
           /\ (pc = "copy" /\ (bidx' # bidx \/ pc' = "done"))
                => (progress = CurTotal /\ Cardinality(BucketCopied) = CurTotal) ]_vars

C8_Witness == pc = "copy" /\ workers = 2 /\ CurTotal = 2 /\ progress = 2

\* C9: the first failed copy that is yielded aborts the run; it is not
\* retried, no file of a later bucket is copied (not even partly), and
\* copied files stay.
C9_AbortOnFirstFailure ==
    /\ [](\A f \in failed : \A c \in copied \cup partial : BucketPos(c[1]) <= BucketOf(f))
    /\ [](partial # {} => failed # {})
    /\ [](\A f \in failed : f \notin inflight /\ f \notin Range(pending))
    /\ [][copied \subseteq copied']_vars
    /\ [][(pc = "copy" /\ results # << >> /\ ~Head(results).ok)
            => (pc' \in {"copy", "error"} /\ Len(results') >= Len(results))]_vars

C9_Witness == pc = "error" /\ err = "io" /\ copied # {}

\* C10 (as stated): if another process creates OUTDIR after the existence
\* check, the run still creates no bucket directory and copies no file there.
C10_NoMergeIntoForeignRoot ==
    envCreated => (subdirs = {} /\ copied = {} /\ partial = {})

\* ---------------------------------------------------------------------
\* prepare_image_split on its own: tables drawn from bounded sets
\* ---------------------------------------------------------------------

MaxRows == 3

Bases == {"a", "b", "c"}

SplitVals == {Val(-1), Val(0), Val(1), NaNVal}

\* joined tables: distinct index keys, any partition code, NaN where the
\* attribute row is missing
SplitBases == {"a", "b"}

\* joined rows: any partition code, NaN where the attribute row is missing;
\* a row with a code outside PARTITIONS matches no mask whatever its
\* attribute, so one attribute value stands for all of them
SplitRows ==
    {r \in [key : {Key(b, INDEX_EXT) : b \in SplitBases},
            part : {0, 1, 2, 3},
            attrs : [AttrCols -> SplitVals]] :
        r.part = 3 => r.attrs = [c \in AttrCols |-> Val(1)]}

\* joined tables, including repeated index keys (a partition file listing
\* a name twice)
SplitTables == SeqsUpTo(SplitRows, MaxRows)

SplitInit ==
    /\ table \in SplitTables
    /\ sepVal \in BOOLEAN
    /\ attr = "Male"
    /\ pc = "split"
    /\ split = << >>
    /\ err = "none"
    /\ partFile = << >> /\ attrFile = << >> /\ imgDir = {} /\ workers = 1
    /\ rootPre = FALSE /\ rootExists = FALSE /\ envCreated = FALSE
    /\ toolRoot = FALSE /\ subdirs = {} /\ copied = {} /\ failed = {}
    /\ images = << >> /\ bidx = 0 /\ pending = << >> /\ inflight = {}
    /\ results = << >> /\ progress = 0
    /\ columns = SpecsColumns(<< [key |-> Key("a", INDEX_EXT), vals |-> [c \in AttrCols |-> 1]] >>)
    /\ partial = {}

\* split_dict = prepare_image_split(specs, attr, separate_val)
ComputeSplit ==
    /\ pc = "split"
    /\ split' = PrepareImageSplit(table, attr, sepVal)
    /\ pc' = "done"
    /\ UNCHANGED << err, rootExists, envCreated, toolRoot, subdirs, table, columns, images >>
    /\ UNCHANGED CopyVars /\ UNCHANGED inputs

SplitNext == ComputeSplit

SplitSpec == SplitInit /\ [][SplitNext]_vars

\* ---------------------------------------------------------------------
\* validate_images on its own: listings and indexes drawn from bounded sets
\* ---------------------------------------------------------------------

MaxImages == 3

AllFiles == Range(FileOrder)

\* index keys of any extension; duplicates allowed (pandas index)
IndexTables ==
    {[i \in DOMAIN ks |-> [key |-> ks[i], part |-> 0, attrs |-> [c \in AttrCols |-> Val(1)]]] :
        ks \in SeqsUpTo({Key(b, e) : b \in Bases, e \in {INDEX_EXT, FILE_EXT}}, MaxRows)}

ValidateInit ==
    /\ table \in IndexTables
    /\ imgDir \in {d \in SUBSET AllFiles : Cardinality(d) <= MaxImages}
    /\ pc = "vimages"
    /\ attr = "Male" /\ sepVal = FALSE
    /\ split = << >>
    /\ err = "none"
    /\ partFile = << >> /\ attrFile = << >> /\ workers = 1
    /\ rootPre = FALSE /\ rootExists = FALSE /\ envCreated = FALSE
    /\ toolRoot = FALSE /\ subdirs = {} /\ copied = {} /\ failed = {}
    /\ images = << >> /\ bidx = 0 /\ pending = << >> /\ inflight = {}
    /\ results = << >> /\ progress = 0
    /\ columns = SpecsColumns(<< [key |-> Key("a", INDEX_EXT), vals |-> [c \in AttrCols |-> 1]] >>)
    /\ partial = {}

ValidateNext == VImages

ValidateSpec == ValidateInit /\ [][ValidateNext]_vars

\* ---------------------------------------------------------------------
\* Properties of the split and of validate_images
\* ---------------------------------------------------------------------

AllSplitItems ==
    UNION {{<< i, q >> : q \in 1..Len(split[i].files)} : i \in DOMAIN split}

Item(iq) == split[iq[1]].files[iq[2]]

NoStemRepeated ==
    \A x, y \in AllSplitItems : x # y => Item(x) # Item(y)

InSomeBucket(r) == r.part \in {0, 1, 2} /\ ~r.attrs[attr].nan

\* C3 (as stated): the buckets partition the rows of every table exactly.
C3_SplitPartitionsRows ==
    pc = "done" => (SumLens(split) = Len(table) /\ NoStemRepeated)

Occ(k) == Cardinality({x \in AllSplitItems : Item(x) = k})

\* C3 (amended): every row lands in at most one bucket, so a stem occurs in
\* the buckets exactly once per row of it with partition 0, 1 or 2 and a
\* non-missing attribute; the lengths sum to at most the row count, with
\* equality exactly when every row is such a row; with distinct index keys
\* no stem is repeated.
C3_SplitDisjointAndTotalOnValidRows ==
    pc = "done" =>
        /\ \A x \in AllSplitItems : Item(x) \in Index(table)
        /\ \A k \in Index(table) :
              Occ(k) = Cardinality({i \in DOMAIN table :
                                      table[i].key = k /\ InSomeBucket(table[i])})
        /\ SumLens(split) <= Len(table)
        /\ (SumLens(split) = Len(table)
              <=> \A i \in DOMAIN table : InSomeBucket(table[i]))
        /\ (DistinctKeys(table) => NoStemRepeated)

C3_Witness ==
    pc = "done" /\ SumLens(split) = Len(table) /\ Len(table) = 3
    /\ ~DistinctKeys(table)
    /\ Cardinality({i \in DOMAIN split : split[i].files # << >>}) >= 2

\* row numbers satisfying P, ascending
RowNums(P(_)) == {i \in DOMAIN table : P(table[i])}

\* fs lists, in table order, the stem of every row satisfying P, once each
RowsInOrder(fs, P(_)) ==
    /\ Len(fs) = Cardinality(RowNums(P))
    /\ \E pos \in [DOMAIN fs -> RowNums(P)] :
          /\ \A p, q \in DOMAIN fs : p < q => pos[p] < pos[q]
          /\ \A p \in DOMAIN fs : fs[p] = table[pos[p]].key

ClassRow(code, cls, r) ==
    r.part = code /\ IF cls = "A" THEN GtZero(r.attrs[attr]) ELSE LeZero(r.attrs[attr])

\* fs is the class list of partition code c1 followed by that of c2
TwoPartList(fs, c1, c2, cls) ==
    LET n == Cardinality(RowNums(LAMBDA r : ClassRow(c1, cls, r)))
    IN /\ n <= Len(fs)
       /\ RowsInOrder(SubSeq(fs, 1, n), LAMBDA r : ClassRow(c1, cls, r))
       /\ RowsInOrder(SubSeq(fs, n + 1, Len(fs)), LAMBDA r : ClassRow(c2, cls, r))

\* C4: merged mode yields exactly trainA, trainB, testA, testB, with testA
\* (testB) equal to the test class-A (B) list followed by the val class-A
\* (B) list; separate mode yields exactly the six buckets, val kept apart.
C4_BucketNamesAndMergeOrder ==
    pc = "done" =>
        IF sepVal
        THEN /\ Len(split) = 6
             /\ << split[1].name, split[2].name, split[3].name, split[4].name,
                   split[5].name, split[6].name >> =
                << "trainA", "trainB", "valA", "valB", "testA", "testB" >>
             /\ \A n \in 1..6 :
                  LET code == CASE n \in 1..2 -> PARTITIONS.train
                                [] n \in 3..4 -> PARTITIONS.val
                                [] OTHER -> PARTITIONS.test
                      cls == IF n % 2 = 1 THEN "A" ELSE "B"
                  IN RowsInOrder(split[n].files, LAMBDA r : ClassRow(code, cls, r))
        ELSE /\ Len(split) = 4
             /\ << split[1].name, split[2].name, split[3].name, split[4].name >> =
                << "trainA", "trainB", "testA", "testB" >>
             /\ RowsInOrder(split[1].files, LAMBDA r : ClassRow(PARTITIONS.train, "A", r))
             /\ RowsInOrder(split[2].files, LAMBDA r : ClassRow(PARTITIONS.train, "B", r))
             /\ TwoPartList(split[3].files, PARTITIONS.test, PARTITIONS.val, "A")
             /\ TwoPartList(split[4].files, PARTITIONS.test, PARTITIONS.val, "B")

C4_Witness ==
    pc = "done" /\ ~sepVal
    /\ RowNums(LAMBDA r : ClassRow(PARTITIONS.test, "A", r)) # {}
    /\ RowNums(LAMBDA r : ClassRow(PARTITIONS.val, "A", r)) # {}

\* C5: for each partition p, class A is the stems of rows in p with the
\* attribute > 0 and class B those with the attribute <= 0 (0 goes to B),
\* both in table row order.
C5_SingleSplitByAttrSign ==
    pc = "done" =>
        \A p \in {"train", "val", "test"} :
            LET s == PrepareSingleSplit(table, attr, p)
            IN /\ RowsInOrder(s[1], LAMBDA r : r.part = PARTITIONS[p] /\ GtZero(r.attrs[attr]))
               /\ RowsInOrder(s[2], LAMBDA r : r.part = PARTITIONS[p] /\ LeZero(r.attrs[attr]))

C5_Witness ==
    pc = "done"
    /\ Len(table) = 3
    /\ \A i \in DOMAIN table : table[i].part = PARTITIONS.train
    /\ << table[1].attrs[attr], table[2].attrs[attr], table[3].attrs[attr] >>
         = << Val(1), Val(-1), Val(0) >>
    /\ split[1].files = << table[1].key >>
    /\ split[2].files = << table[2].key, table[3].key >>

MapToIndex(f) == Key(f.base, INDEX_EXT)

OneToOne ==
    /\ \A i \in DOMAIN images : images[i].ext = FILE_EXT
    /\ \A i, j \in DOMAIN images : i # j => MapToIndex(images[i]) # MapToIndex(images[j])
    /\ {MapToIndex(images[i]) : i \in DOMAIN images} = Index(table)
    /\ Cardinality(Index(table)) = Len(table)

\* C7: validate_images accepts a listing only if replacing .png by .jpg maps
\* the files one-to-one onto the index rows; otherwise it fails with a
\* count, extension or missing-entry error.
C7_ValidateImagesBijection ==
    /\ pc = "split" => OneToOne
    /\ pc = "error" => (err \in {"count", "ext", "missing"} /\ ~OneToOne)

C7_Witness == pc = "split" /\ Len(images) = 2

====
